---------------------------- MODULE Spec2Model ----------------------------
(***************************************************************************)
(* Model of the engine-schematic grid scanner of src/three/src/main.rs:    *)
(* the rectangular character grid (AoCGrid), the 8-neighbour adjacency     *)
(* enumeration, the digit-run scanner (GridNumberIterator), the part       *)
(* number test, the gear detection and the two sums built on them.         *)
(*                                                                         *)
(* A cell is a one-character string, a grid line a sequence of cells.      *)
(* Coordinates are 0-based as in the source; TLA+ sequences are 1-based,   *)
(* so line p.y is lines[p.y + 1] and column p.x is its element p.x + 1.    *)
(* An Option<T> is a sequence of length at most one.                       *)
(***************************************************************************)
EXTENDS Integers, Sequences, FiniteSets, TLC

(***************************************************************************)
(* Bounds of the model.                                                    *)
(***************************************************************************)
\* Every grid of at most MaxCells cells over Alphabet is an initial grid.
MaxCells == 4

\* The same for the grids two consumers share.
MaxCellsShared == 3

\* Every shape up to MaxDim x MaxDim is an initial grid with patterned content.
MaxDim == 3

\* Number of next() calls observed after an iterator first returned None.
MaxNone == 2

\* Every input text of at most MaxText characters is given to AoCGrid::new.
MaxText == 6

(***************************************************************************)
(* Option<T>                                                               *)
(***************************************************************************)
None == <<>>

Some(v) == <<v>>

IsSome(o) == o # <<>>

Unwrap(o) == o[1]

(***************************************************************************)
(* Inputs: the grids of the test module, written cell by cell.             *)
(***************************************************************************)
TEST_INPUT ==
  <<
     <<"4","6","7",".",".","1","1","4",".",".">>,
     <<".",".",".","*",".",".",".",".",".",".">>,
     <<".",".","3","5",".",".","6","3","3",".">>,
     <<".",".",".",".",".",".","#",".",".",".">>,
     <<"6","1","7","*",".",".",".",".",".",".">>,
     <<".",".",".",".",".","+",".","5","8",".">>,
     <<".",".","5","9","2",".",".",".",".",".">>,
     <<".",".",".",".",".",".","7","5","5",".">>,
     <<".",".",".","$",".","*",".",".",".",".">>,
     <<".","6","6","4",".","5","9","8",".",".">>
  >>

StartEndInput ==
  <<
     <<"1","2",".","3","4">>,
     <<"5","6",".",".",".">>,
     <<"7",".",".","8","9">>
  >>

EdgeInput ==
  <<
     <<"1","2","3">>,
     <<"4","5","6">>,
     <<"7","8","9">>
  >>

RedditInput ==
  <<
     <<"1","2",".",".",".",".",".",".",".","*",".",".">>,
     <<"+",".",".",".",".",".",".",".",".",".","3","4">>,
     <<".",".",".",".",".",".",".","-","1","2",".",".">>,
     <<".",".","7","8",".",".",".",".",".",".",".",".">>,
     <<".",".","*",".",".",".",".","6","0",".",".",".">>,
     <<"7","8",".",".",".",".",".",".",".",".",".","9">>,
     <<".","5",".",".",".",".",".","2","3",".",".","$">>,
     <<"8",".",".",".","9","0","*","1","2",".",".",".">>,
     <<".",".",".",".",".",".",".",".",".",".",".",".">>,
     <<"2",".","2",".",".",".",".",".",".","1","2",".">>,
     <<".","*",".",".",".",".",".",".",".",".",".","*">>,
     <<"1",".","1",".",".","5","0","3","+",".","5","6">>
  >>

Reddit2Input ==
  <<
     <<".",".",".",".",".",".",".",".">>,
     <<".","2","4",".",".","4",".",".">>,
     <<".",".",".",".",".",".","*",".">>
  >>

\* A Symbol that touches only interior cells of a run of five digits.
InteriorInput ==
  <<
     <<".",".","#",".",".">>,
     <<"1","2","1","2","1">>
  >>

\* A '*' between two Numbers of equal value.
EqualValuesInput ==
  <<
     <<"1","2","*","1","2">>
  >>

NamedInputs == {StartEndInput, EdgeInput, Reddit2Input, InteriorInput, EqualValuesInput}

LargeInputs == {TEST_INPUT, RedditInput}

\* Two digits, the space, the gear symbol and one other symbol.
Alphabet == {"1", "2", ".", "*", "#"}

AlphabetSeq == <<"1", "*", "2", ".", "#">>

SmallInputs(cells) ==
  UNION {[1..h -> [1..w -> Alphabet]] :
           <<w, h>> \in {s \in (1..cells) \X (1..cells) : s[1] * s[2] <= cells}}

\* One input per shape: cell (x, y) holds AlphabetSeq[((x + 2 * y) % 5) + 1].
PatternInputs ==
  {[r \in 1..h |-> [c \in 1..w |-> AlphabetSeq[(((c - 1) + 2 * (r - 1)) % 5) + 1]]] :
     <<w, h>> \in (1..MaxDim) \X (1..MaxDim)}

Inputs == SmallInputs(MaxCells) \cup PatternInputs \cup NamedInputs \cup LargeInputs

SharedInputs == SmallInputs(MaxCellsShared) \cup PatternInputs \cup NamedInputs

(***************************************************************************)
(* Point, Vec::get, str::get, usize::checked_add_signed                    *)
(***************************************************************************)
Point(px, py) == [x |-> px, y |-> py]

VecGet(v, i) == IF 0 <= i /\ i < Len(v) THEN Some(v[i + 1]) ELSE None

\* l.get(a..b): the cells a .. b-1 of the line, None for a range outside it.
StrGet(l, a, b) == IF a <= b /\ b <= Len(l) THEN Some(SubSeq(l, a + 1, b)) ELSE None

\* l.get(a..)
StrGetFrom(l, a) == IF a <= Len(l) THEN Some(SubSeq(l, a + 1, Len(l))) ELSE None

\* Mutant: saturating_add_signed in place of checked_add_signed.
CheckedAddSignedSaturating(u, d) == IF u + d < 0 THEN Some(0) ELSE Some(u + d)

CheckedAddSigned(u, d) == IF u + d < 0 THEN None ELSE Some(u + d)

(***************************************************************************)
(* AoCGrid                                                                 *)
(***************************************************************************)
\* Mutant: the last line is not compared with the first.
AoCGridNewSkipsLast(lines) ==
  IF lines = <<>> \/ \E i \in 1..(Len(lines) - 1) : Len(lines[i]) # Len(lines[1])
    THEN [ok |-> FALSE, lines |-> lines, width |-> 0, height |-> 0]
    ELSE [ok |-> TRUE, lines |-> lines, width |-> Len(lines[1]), height |-> Len(lines)]

\* AoCGrid::new on the lines of the input; ok = FALSE where the code panics.
AoCGridNew(lines) ==
  IF lines = <<>> \/ \E i \in 1..Len(lines) : Len(lines[i]) # Len(lines[1])
    THEN [ok |-> FALSE, lines |-> lines, width |-> 0, height |-> 0]
    ELSE [ok |-> TRUE, lines |-> lines, width |-> Len(lines[1]), height |-> Len(lines)]

valid_coordinate(g, p) == p.x < g.width /\ p.y < g.height

\* Mutant: the row is chosen by p.x and the column by p.y.
GetTransposed(g, p) ==
  IF valid_coordinate(g, p)
    THEN LET l == VecGet(g.lines, p.x)
             s == IF IsSome(l) THEN StrGet(Unwrap(l), p.y, p.y + 1) ELSE None
         IN IF IsSome(s) THEN Some(Unwrap(s)[1]) ELSE None
    ELSE None

\* AoCGrid::get: Some(cell) for a valid coordinate, the cell a one-character string.
Get(g, p) ==
  IF valid_coordinate(g, p)
    THEN LET l == VecGet(g.lines, p.y)
             s == IF IsSome(l) THEN StrGet(Unwrap(l), p.x, p.x + 1) ELSE None
         IN IF IsSome(s) THEN Some(Unwrap(s)[1]) ELSE None
    ELSE None

\* Mutant: a length that reaches the end of the row or beyond is an error.
get_strStrict(g, p, length) ==
  LET end_point == Point(p.x + length, p.y)
      l == VecGet(g.lines, p.y)
  IN IF valid_coordinate(g, p) /\ valid_coordinate(g, end_point) /\ IsSome(l)
       THEN StrGet(Unwrap(l), p.x, end_point.x)
       ELSE None

\* AoCGrid::get_str: Some(sequence of cells).
get_str(g, p, length) ==
  LET end_point == Point(p.x + length, p.y)
      l == VecGet(g.lines, p.y)
  IN IF valid_coordinate(g, p)
       THEN IF valid_coordinate(g, end_point)
              THEN IF IsSome(l) THEN StrGet(Unwrap(l), p.x, end_point.x) ELSE None
              ELSE IF IsSome(l) THEN StrGetFrom(Unwrap(l), p.x) ELSE None
       ELSE None

(***************************************************************************)
(* AoCGridAdjacentPoints and AoCGridAdjacenyIterator                       *)
(***************************************************************************)
\* Mutant: the offsets column by column.
POSSIBLE_ADJACENCYColumnMajor ==
  << <<-1, -1>>, <<-1, 0>>, <<-1, 1>>, <<0, -1>>, <<0, 1>>, <<1, -1>>, <<1, 0>>, <<1, 1>> >>

POSSIBLE_ADJACENCY ==
  << <<-1, -1>>, <<0, -1>>, <<1, -1>>, <<-1, 0>>, <<1, 0>>, <<-1, 1>>, <<0, 1>>, <<1, 1>> >>

\* The loop of AoCGridAdjacentPoints::new from offset i on; acc is valid_coords.
RECURSIVE AdjacentPointsLoop(_, _, _, _)
AdjacentPointsLoop(g, p, i, acc) ==
  IF i > Len(POSSIBLE_ADJACENCY)
    THEN acc
    ELSE LET dx == POSSIBLE_ADJACENCY[i][1]
             dy == POSSIBLE_ADJACENCY[i][2]
             u == CheckedAddSigned(p.x, dx)
             v == CheckedAddSigned(p.y, dy)
             push == /\ IsSome(u)
                     /\ IsSome(v)
                     /\ valid_coordinate(g, Point(Unwrap(u), Unwrap(v)))
         IN AdjacentPointsLoop(g, p, i + 1,
              IF push THEN Append(acc, Point(Unwrap(u), Unwrap(v))) ELSE acc)

\* AoCGridAdjacentPoints::new for a valid p (the code panics on an invalid one).
AdjacentPointsNew(g, p) == [valid_coords |-> AdjacentPointsLoop(g, p, 1, <<>>), iter_number |-> 0]

\* AoCGridAdjacentPoints::next: the item and the iterator after the call.
AdjacentPointsNext(it) ==
  [item |-> VecGet(it.valid_coords, it.iter_number),
   it |-> [it EXCEPT !.iter_number = it.iter_number + 1]]

\* What a for loop over the iterator sees: the items up to the first None.
RECURSIVE AdjacentPointsCollect(_)
AdjacentPointsCollect(it) ==
  LET r == AdjacentPointsNext(it)
  IN IF IsSome(r.item) THEN <<Unwrap(r.item)>> \o AdjacentPointsCollect(r.it) ELSE <<>>

\* AoCGridAdjacenyIterator over grid.adjacent(p): the cells up to the first None.
RECURSIVE AdjacencyCollect(_, _)
AdjacencyCollect(g, inner) ==
  LET r == AdjacentPointsNext(inner)
      c == IF IsSome(r.item) THEN Get(g, Unwrap(r.item)) ELSE None
  IN IF IsSome(c) THEN <<Unwrap(c)>> \o AdjacencyCollect(g, r.it) ELSE <<>>

adjacent(g, p) == AdjacencyCollect(g, AdjacentPointsNew(g, p))

(***************************************************************************)
(* GridDataType and the parse of a digit run                               *)
(***************************************************************************)
Digits == {"0", "1", "2", "3", "4", "5", "6", "7", "8", "9"}

DigitValue(s) ==
  CASE s = "0" -> 0 [] s = "1" -> 1 [] s = "2" -> 2 [] s = "3" -> 3 [] s = "4" -> 4
    [] s = "5" -> 5 [] s = "6" -> 6 [] s = "7" -> 7 [] s = "8" -> 8 [] s = "9" -> 9

\* GridDataType::from_str on a one-character cell (a longer string is an Err).
GridDataTypeFromStr(s) ==
  IF s = "." THEN [tag |-> "Space", digit |-> 0]
  ELSE IF s \in Digits THEN [tag |-> "Digit", digit |-> DigitValue(s)]
  ELSE [tag |-> "Symbol", digit |-> 0]

\* u64::MAX = 18446744073709551615, digit by digit.
U64_MAX_DIGITS == <<1, 8, 4, 4, 6, 7, 4, 4, 0, 7, 3, 7, 0, 9, 5, 5, 1, 6, 1, 5>>

RECURSIVE StripZeros(_)
StripZeros(ds) == IF ds # <<>> /\ ds[1] = 0 THEN StripZeros(Tail(ds)) ELSE ds

RECURSIVE LexGreater(_, _)
LexGreater(a, b) ==
  IF a = <<>> THEN FALSE
  ELSE IF a[1] # b[1] THEN a[1] > b[1]
  ELSE LexGreater(Tail(a), Tail(b))

\* The run's value exceeds u64::MAX.
OverflowsU64(cells) ==
  LET ds == StripZeros([i \in 1..Len(cells) |-> DigitValue(cells[i])])
  IN \/ Len(ds) > Len(U64_MAX_DIGITS)
     \/ Len(ds) = Len(U64_MAX_DIGITS) /\ LexGreater(ds, U64_MAX_DIGITS)

RECURSIVE DecimalValue(_, _)
DecimalValue(cells, acc) ==
  IF cells = <<>> THEN acc ELSE DecimalValue(Tail(cells), acc * 10 + DigitValue(cells[1]))

\* str::parse::<u64>: Err for the empty string, a non-digit, or a value above u64::MAX.
ParseU64(cells) ==
  IF cells = <<>> \/ (\E i \in 1..Len(cells) : cells[i] \notin Digits) \/ OverflowsU64(cells)
    THEN None
    ELSE Some(DecimalValue(cells, 0))

(***************************************************************************)
(* GridNumberIterator                                                      *)
(***************************************************************************)
GridNumber(v, start, len) == [value |-> v, start_coord |-> start, coord_length |-> len]

GridNumberIteratorNew == [point |-> Some(Point(0, 0))]

\* Mutant: the cursor does not wrap to the next row.
next_pointNoWrap(g, point) ==
  IF IsSome(point)
    THEN LET p == Unwrap(point)
         IN IF p.x = g.width - 1 /\ p.y = g.height - 1
              THEN None
              ELSE Some(Point(p.x + 1, p.y))
    ELSE None

next_point(g, point) ==
  IF IsSome(point)
    THEN LET p == Unwrap(point)
         IN IF p.x = g.width - 1
              THEN IF p.y = g.height - 1 THEN None ELSE Some(Point(0, p.y + 1))
              ELSE Some(Point(p.x + 1, p.y))
    ELSE None

\* Mutant: the closing cell is taken for the run's last cell.
get_coord_lengthShort(start, end, grid_width) ==
  IF end.x < start.x /\ end.y > start.y
    THEN grid_width - start.x
    ELSE end.x - start.x - 1

get_coord_length(start, end, grid_width) ==
  IF end.x < start.x /\ end.y > start.y
    THEN grid_width - start.x
    ELSE end.x - start.x

\* get_str(..).expect(..).parse().expect(..) and the GridNumber built from it:
\* None where one of the two expect calls panics.
ReadNumber(g, start_coord, coord_length) ==
  LET s == get_str(g, start_coord, coord_length)
      v == IF IsSome(s) THEN ParseU64(Unwrap(s)) ELSE None
  IN IF IsSome(v) THEN Some(GridNumber(Unwrap(v), start_coord, coord_length)) ELSE None

\* Mutant: the run still open when the cursor is exhausted is dropped.
AfterLoopNoEmit(g, start) == [point |-> None, result |-> None, panic |-> FALSE]

\* The code after the while loop of GridNumberIterator::next: the run still
\* open when the cursor is exhausted is emitted.
AfterLoop(g, start) ==
  IF IsSome(start)
    THEN LET n == ReadNumber(g, Unwrap(start), g.width - Unwrap(start).x)
         IN [point |-> None, result |-> n, panic |-> ~IsSome(n)]
    ELSE [point |-> None, result |-> None, panic |-> FALSE]

\* Mutant: the end of a row never closes a run.
RowEndsNever(p, np) == FALSE

\* The test `np.y > p.y` of the end-of-row check.
RowEnds(p, np) == np.y > p.y

\* The while loop of GridNumberIterator::next and the code after it, from the
\* cursor `point` with the open run `start`.  The result is the iterator's
\* cursor after the call, the returned item, and whether the call panicked.
RECURSIVE NextLoop(_, _, _)
NextLoop(g, point, start) ==
  IF ~IsSome(point)
    THEN AfterLoop(g, start)
    ELSE
      LET this_point == Unwrap(point)
          cell == Get(g, this_point)
          isDigit == IsSome(cell) /\ GridDataTypeFromStr(Unwrap(cell)).tag = "Digit"
          \* the match on the cell's type
          closes == ~isDigit /\ IsSome(start)
          n1 == IF closes
                  THEN ReadNumber(g, Unwrap(start),
                                  get_coord_length(Unwrap(start), this_point, g.width))
                  ELSE None
          start1 == IF isDigit
                      THEN (IF IsSome(start) THEN start ELSE Some(this_point))
                      ELSE None
          \* the end-of-row check
          np == next_point(g, point)
          crosses == IsSome(start1) /\ IsSome(np) /\ RowEnds(this_point, Unwrap(np))
          n2 == IF crosses
                  THEN ReadNumber(g, Unwrap(start1), g.width - Unwrap(start1).x)
                  ELSE None
          result == IF crosses THEN n2 ELSE n1
          start2 == IF crosses THEN None ELSE start1
      IN IF ~IsSome(cell) \/ (closes /\ ~IsSome(n1)) \/ (crosses /\ ~IsSome(n2))
           THEN [point |-> point, result |-> None, panic |-> TRUE]
           ELSE IF IsSome(result)
                  THEN [point |-> np, result |-> result, panic |-> FALSE]
                  ELSE NextLoop(g, np, start2)

\* GridNumberIterator::next
GridNumberIteratorNext(g, it) == NextLoop(g, it.point, None)

\* The Numbers a consumer of grid_numbers() sees: the items up to the first None.
RECURSIVE GridNumbersCollect(_, _)
GridNumbersCollect(g, it) ==
  LET r == GridNumberIteratorNext(g, it)
  IN IF IsSome(r.result)
       THEN <<Unwrap(r.result)>> \o GridNumbersCollect(g, [point |-> r.point])
       ELSE <<>>

grid_numbers(g) == GridNumbersCollect(g, GridNumberIteratorNew)

(***************************************************************************)
(* GridNumberAdjacentData and GridNumber::part_number                      *)
(***************************************************************************)
\* GridNumberAdjacentData::new: the neighbour cells of the run's cells i, i+1, ...
RECURSIVE AdjacentDataLoop(_, _, _)
AdjacentDataLoop(g, n, i) ==
  IF i >= n.coord_length
    THEN <<>>
    ELSE adjacent(g, Point(n.start_coord.x + i, n.start_coord.y))
           \o AdjacentDataLoop(g, n, i + 1)

\* Mutant: only the neighbours of the two end cells of the run.
GridNumberAdjacentDataEnds(g, n) ==
  adjacent(g, n.start_coord)
    \o adjacent(g, Point(n.start_coord.x + n.coord_length - 1, n.start_coord.y))

GridNumberAdjacentDataNew(g, n) == AdjacentDataLoop(g, n, 0)

part_number(g, n) ==
  LET data == GridNumberAdjacentDataNew(g, n)
  IN IF \E i \in 1..Len(data) : GridDataTypeFromStr(data[i]).tag = "Symbol"
       THEN Some(n.value)
       ELSE None

(***************************************************************************)
(* GridIterator                                                            *)
(***************************************************************************)
GridIteratorNew(g) == [width |-> g.width, height |-> g.height, current |-> None]

\* GridIterator::next: the iterator after the call; the item is its `current`.
GridIteratorNext(it) ==
  IF ~IsSome(it.current)
    THEN [it EXCEPT !.current = Some(Point(0, 0))]
    ELSE LET p == Unwrap(it.current)
         IN IF p.x = it.width - 1
              THEN IF p.y = it.height - 1
                     THEN [it EXCEPT !.current = None]
                     ELSE [it EXCEPT !.current = Some(Point(0, p.y + 1))]
              ELSE [it EXCEPT !.current = Some(Point(p.x + 1, p.y))]

\* What a for loop over the iterator sees: the points up to the first None.
RECURSIVE GridIteratorCollect(_)
GridIteratorCollect(it) ==
  LET nx == GridIteratorNext(it)
  IN IF IsSome(nx.current) THEN <<Unwrap(nx.current)>> \o GridIteratorCollect(nx) ELSE <<>>

(***************************************************************************)
(* part_number_lookup, GearIterator, solve_one, solve_two                  *)
(***************************************************************************)
\* Mutant: only the start coordinate of a part Number is inserted.
RECURSIVE LookupLoopStartOnly(_, _, _, _)
LookupLoopStartOnly(g, ns, i, map) ==
  IF i > Len(ns)
    THEN map
    ELSE LET n == ns[i]
             cells == {n.start_coord}
         IN LookupLoopStartOnly(g, ns, i + 1,
              IF IsSome(part_number(g, n))
                THEN [p \in cells |-> n] @@ map
                ELSE map)

\* The HashMap after the numbers ns[i..] were handled; insert overwrites.
RECURSIVE LookupLoop(_, _, _, _)
LookupLoop(g, ns, i, map) ==
  IF i > Len(ns)
    THEN map
    ELSE LET n == ns[i]
             cells == {Point(n.start_coord.x + dx, n.start_coord.y) : dx \in 0..(n.coord_length - 1)}
         IN LookupLoop(g, ns, i + 1,
              IF IsSome(part_number(g, n))
                THEN [p \in cells |-> n] @@ map
                ELSE map)

part_number_lookup(g) == LookupLoop(g, grid_numbers(g), 1, <<>>)

\* HashMap::get
LookupGet(lookup, p) == IF p \in DOMAIN lookup THEN Some(lookup[p]) ELSE None

\* Row-major order of start coordinates, one of the orders a HashSet may iterate in.
RowMajorBefore(a, b) == a.y < b.y \/ (a.y = b.y /\ a.x < b.x)

\* The product over a HashSet's into_iter().  The iteration order of a HashSet
\* is not specified: `flip` chooses between the two directions of one order.
RECURSIVE ProductIn(_, _)
ProductIn(s, flip) ==
  IF s = {}
    THEN 1
    ELSE LET first == CHOOSE n \in s : \A m \in s \ {n} :
                        IF flip THEN RowMajorBefore(m.start_coord, n.start_coord)
                                ELSE RowMajorBefore(n.start_coord, m.start_coord)
         IN first.value * ProductIn(s \ {first}, flip)

\* Mutant: the adjacent Numbers are told apart by value.
GearsAtByValue(g, lookup, point, flip) ==
  IF Get(g, point) = Some("*")
    THEN LET adj == AdjacentPointsCollect(AdjacentPointsNew(g, point))
             values ==
               {Unwrap(LookupGet(lookup, adj[i])).value :
                  i \in {j \in 1..Len(adj) : IsSome(LookupGet(lookup, adj[j]))}}
         IN IF Cardinality(values) = 2
              THEN << [ratio |-> (CHOOSE v \in values : TRUE)
                                   * (CHOOSE v \in values : v # (CHOOSE u \in values : TRUE))] >>
              ELSE <<>>
    ELSE <<>>

\* The body of the for loop of GearIterator::new for one point.
GearsAt(g, lookup, point, flip) ==
  IF Get(g, point) = Some("*")
    THEN LET adj == AdjacentPointsCollect(AdjacentPointsNew(g, point))
             adjacent_part_numbers ==
               {Unwrap(LookupGet(lookup, adj[i])) :
                  i \in {j \in 1..Len(adj) : IsSome(LookupGet(lookup, adj[j]))}}
         IN IF Cardinality(adjacent_part_numbers) = 2
              THEN << [ratio |-> ProductIn(adjacent_part_numbers, flip)] >>
              ELSE <<>>
    ELSE <<>>

RECURSIVE GearsLoop(_, _, _, _, _)
GearsLoop(g, lookup, points, i, flip) ==
  IF i > Len(points)
    THEN <<>>
    ELSE GearsAt(g, lookup, points[i], flip) \o GearsLoop(g, lookup, points, i + 1, flip)

GearIteratorNew(g, flip) ==
  [gears |-> GearsLoop(g, part_number_lookup(g), GridIteratorCollect(GridIteratorNew(g)), 1, flip),
   iter_number |-> 0]

\* Mutant: iter_number is advanced before the read.
GearIteratorNextSkips(it) ==
  [item |-> VecGet(it.gears, it.iter_number + 1),
   it |-> [it EXCEPT !.iter_number = it.iter_number + 1]]

\* GearIterator::next: the item and the iterator after the call.
GearIteratorNext(it) ==
  [item |-> VecGet(it.gears, it.iter_number),
   it |-> [it EXCEPT !.iter_number = it.iter_number + 1]]

RECURSIVE GearsCollect(_)
GearsCollect(it) ==
  LET r == GearIteratorNext(it)
  IN IF IsSome(r.item) THEN <<Unwrap(r.item)>> \o GearsCollect(r.it) ELSE <<>>

RECURSIVE SumSeq(_)
SumSeq(s) == IF s = <<>> THEN 0 ELSE s[1] + SumSeq(Tail(s))

UnwrapOr(o, d) == IF IsSome(o) THEN Unwrap(o) ELSE d

\* Mutant: a value counts once however many part Numbers have it.
solve_oneDistinct(g) ==
  LET ns == grid_numbers(g)
      values == {ns[i].value : i \in {j \in 1..Len(ns) : IsSome(part_number(g, ns[j]))}}
      RECURSIVE SumSet(_)
      SumSet(vs) == IF vs = {} THEN 0
                    ELSE LET v == CHOOSE v \in vs : TRUE IN v + SumSet(vs \ {v})
  IN SumSet(values)

solve_one(g) ==
  LET ns == grid_numbers(g)
  IN SumSeq([i \in 1..Len(ns) |-> UnwrapOr(part_number(g, ns[i]), 0)])

solve_two(g, flip) ==
  LET gs == GearsCollect(GearIteratorNew(g, flip))
  IN SumSeq([i \in 1..Len(gs) |-> gs[i].ratio])

(***************************************************************************)
(* State                                                                   *)
(***************************************************************************)
VARIABLES
  grid,      \* the AoCGrid the EngineSchematic refers to
  numIter,   \* per caller: the GridNumberIterator it holds, None before grid_numbers()
  numOut,    \* per caller: what the calls of next() on its iterator returned, in order
  gearIter,  \* per caller: the GearIterator it holds, None before gears()
  query,     \* the last call of a function: its name, argument and result
  panicked   \* an unwrap or expect failed: the program has aborted

vars == <<grid, numIter, numOut, gearIter, query, panicked>>

Callers == {"A", "B"}

InitOn(inputs) ==
  /\ grid \in {AoCGridNew(input) : input \in inputs}
  /\ grid.ok
  /\ numIter = [c \in Callers |-> None]
  /\ numOut = [c \in Callers |-> <<>>]
  /\ gearIter = [c \in Callers |-> None]
  /\ query = None
  /\ panicked = FALSE

Init == InitOn(Inputs)

\* The number of None results at the end of a sequence of results.
RECURSIVE TrailingNones(_)
TrailingNones(out) ==
  IF out # <<>> /\ out[Len(out)] = None
    THEN 1 + TrailingNones(SubSeq(out, 1, Len(out) - 1))
    ELSE 0

\* Mutant: one cursor for the schematic, which a new iterator carries on from.
GridNumbersSharedCursor(c) ==
  /\ ~panicked
  /\ numIter' = [numIter EXCEPT ![c] =
                   IF \E d \in Callers \ {c} : IsSome(numIter[d])
                     THEN numIter[CHOOSE d \in Callers \ {c} : IsSome(numIter[d])]
                     ELSE Some(GridNumberIteratorNew)]
  /\ numOut' = [numOut EXCEPT ![c] = <<>>]
  /\ UNCHANGED <<grid, gearIter, query, panicked>>

\* EngineSchematic::grid_numbers: caller c gets a fresh iterator.
GridNumbers(c) ==
  /\ ~panicked
  /\ numIter' = [numIter EXCEPT ![c] = Some(GridNumberIteratorNew)]
  /\ numOut' = [numOut EXCEPT ![c] = <<>>]
  /\ UNCHANGED <<grid, gearIter, query, panicked>>

\* GridNumberIterator::next on the iterator of caller c.
NumbersNext(c) ==
  /\ ~panicked
  /\ IsSome(numIter[c])
  /\ TrailingNones(numOut[c]) < MaxNone
  /\ LET r == GridNumberIteratorNext(grid, Unwrap(numIter[c]))
     IN /\ panicked' = r.panic
        /\ numIter' = [numIter EXCEPT ![c] = Some([point |-> r.point])]
        /\ numOut' = IF r.panic THEN numOut
                     ELSE [numOut EXCEPT ![c] = Append(@, r.result)]
  /\ UNCHANGED <<grid, gearIter, query>>

\* EngineSchematic::gears: caller c gets its GearIterator.
Gears(c) ==
  /\ ~panicked
  /\ gearIter[c] = None
  /\ \E flip \in BOOLEAN : gearIter' = [gearIter EXCEPT ![c] = Some(GearIteratorNew(grid, flip))]
  /\ UNCHANGED <<grid, numIter, numOut, query, panicked>>

\* One consumer scanning the Numbers of the schematic.
Next ==
  \/ GridNumbers("A")
  \/ NumbersNext("A")

Spec == Init /\ [][Next]_vars

\* Two consumers of the same schematic, their calls interleaved.
InitShared == InitOn(SharedInputs)

NextShared ==
  \/ \E c \in Callers : GridNumbers(c)
  \/ \E c \in Callers : NumbersNext(c)
  \/ \E c \in Callers : Gears(c)

SpecShared == InitShared /\ [][NextShared]_vars

(***************************************************************************)
(* The query functions, one call on a schematic nobody has used yet.       *)
(***************************************************************************)
ValidPoints(g) == {Point(px, py) : <<px, py>> \in (0..(g.width - 1)) \X (0..(g.height - 1))}

Idle ==
  /\ ~panicked
  /\ query = None
  /\ \A c \in Callers : numIter[c] = None /\ gearIter[c] = None

\* AoCGridAdjacentPoints::new and grid.adjacent for a valid coordinate.
Adjacent(p) ==
  /\ Idle
  /\ query' = Some([op |-> "adjacent", arg |-> p,
                    points |-> AdjacentPointsCollect(AdjacentPointsNew(grid, p)),
                    result |-> adjacent(grid, p)])
  /\ UNCHANGED <<grid, numIter, numOut, gearIter, panicked>>

\* GridNumber::part_number for the i-th Number of grid_numbers().
PartNumber(i) ==
  /\ Idle
  /\ LET ns == grid_numbers(grid)
     IN /\ i <= Len(ns)
        /\ query' = Some([op |-> "part_number", arg |-> ns[i], points |-> <<>>,
                          result |-> part_number(grid, ns[i])])
  /\ UNCHANGED <<grid, numIter, numOut, gearIter, panicked>>

SolveOne ==
  /\ Idle
  /\ query' = Some([op |-> "solve_one", arg |-> None, points |-> <<>>,
                    result |-> solve_one(grid)])
  /\ UNCHANGED <<grid, numIter, numOut, gearIter, panicked>>

SolveTwo ==
  /\ Idle
  /\ \E flip \in BOOLEAN :
       query' = Some([op |-> "solve_two", arg |-> None, points |-> <<>>,
                      result |-> solve_two(grid, flip)])
  /\ UNCHANGED <<grid, numIter, numOut, gearIter, panicked>>

GearsQuery == Idle /\ Gears("A")

NextQuery ==
  \/ \E p \in ValidPoints(grid) : Adjacent(p)
  \/ \E i \in 1..(grid.width * grid.height) : PartNumber(i)
  \/ SolveOne
  \/ SolveTwo
  \/ GearsQuery

SpecQuery == Init /\ [][NextQuery]_vars

(***************************************************************************)
(* Reference definitions, written from the grid alone: the maximal         *)
(* horizontal digit runs and the 8-neighbourhood.                          *)
(***************************************************************************)
CellAt(g, x, y) == g.lines[y + 1][x + 1]

IsDigitCell(g, x, y) == CellAt(g, x, y) \in Digits

IsSymbolCell(g, x, y) == CellAt(g, x, y) \notin Digits \cup {"."}

IsRunStart(g, x, y) == IsDigitCell(g, x, y) /\ (x = 0 \/ ~IsDigitCell(g, x - 1, y))

\* The last column of the maximal run that starts at (x, y).
RunEnd(g, x, y) ==
  CHOOSE e \in x..(g.width - 1) :
    /\ \A i \in x..e : IsDigitCell(g, i, y)
    /\ e = g.width - 1 \/ ~IsDigitCell(g, e + 1, y)

RECURSIVE Pow10(_)
Pow10(n) == IF n = 0 THEN 1 ELSE 10 * Pow10(n - 1)

\* The decimal value of the cells x..e of row y.
RECURSIVE RunValue(_, _, _, _)
RunValue(g, x, e, y) ==
  IF x > e THEN 0
  ELSE DigitValue(CellAt(g, x, y)) * Pow10(e - x) + RunValue(g, x + 1, e, y)

MaximalRuns(g) ==
  {GridNumber(RunValue(g, p.x, RunEnd(g, p.x, p.y), p.y), p, RunEnd(g, p.x, p.y) - p.x + 1) :
     p \in {q \in ValidPoints(g) : IsRunStart(g, q.x, q.y)}}

Precedes(a, b) == a.y < b.y \/ (a.y = b.y /\ a.x < b.x)

Covers(n, p) ==
  /\ p.y = n.start_coord.y
  /\ n.start_coord.x <= p.x
  /\ p.x < n.start_coord.x + n.coord_length

\* The Numbers among the results of next(), in order.
RECURSIVE Emitted(_)
Emitted(out) ==
  IF out = <<>> THEN <<>>
  ELSE IF IsSome(out[1]) THEN <<Unwrap(out[1])>> \o Emitted(Tail(out))
  ELSE Emitted(Tail(out))

Range(f) == {f[i] : i \in DOMAIN f}

Values(ns) == [i \in 1..Len(ns) |-> ns[i].value]

Complete(out) == \E i \in 1..Len(out) : out[i] = None

(***************************************************************************)
(* C1: the Numbers that grid_numbers() produces are exactly the maximal    *)
(* horizontal digit runs of the grid, each once, in row-major order of     *)
(* start coordinate, with the run's start, length and decimal value; no    *)
(* two emitted runs overlap, and once the iterator has returned None the   *)
(* runs and the non-digit cells cover every cell exactly once.             *)
(***************************************************************************)
C1_NumbersAreTheMaximalRuns ==
  LET out == numOut["A"]
      ns == Emitted(out)
      runs == MaximalRuns(grid)
  IN /\ \A i \in 1..(Len(out) - 1) : out[i] = None => out[i + 1] = None
     /\ \A i \in 1..Len(ns) : ns[i] \in runs
     /\ \A i, j \in 1..Len(ns) : i < j => Precedes(ns[i].start_coord, ns[j].start_coord)
     /\ \A r \in runs \ Range(ns) :
          \A i \in 1..Len(ns) : Precedes(ns[i].start_coord, r.start_coord)
     /\ \A i, j \in 1..Len(ns) :
          i # j => ~\E p \in ValidPoints(grid) : Covers(ns[i], p) /\ Covers(ns[j], p)
     /\ Complete(out) =>
          /\ Range(ns) = runs
          /\ \A p \in ValidPoints(grid) :
               Cardinality({i \in 1..Len(ns) : Covers(ns[i], p)})
                 = IF IsDigitCell(grid, p.x, p.y) THEN 1 ELSE 0

C1_Witness ==
  /\ grid.lines = TEST_INPUT
  /\ Complete(numOut["A"])
  /\ Values(Emitted(numOut["A"])) = <<467, 114, 35, 633, 617, 58, 592, 755, 664, 598>>

(***************************************************************************)
(* C2: a run that reaches the last column of a row that is not the last    *)
(* row is closed there with coord_length = width - start_coord.x, a digit  *)
(* in column 0 of the next row starts a new Number, and no Number reaches  *)
(* past the last column of its row.                                        *)
(***************************************************************************)
C2_RunsCloseAtRowEnd ==
  LET out == numOut["A"]
      ns == Emitted(out)
      w == grid.width
      h == grid.height
      \* the cursor has left row y
      Passed(y) ==
        /\ IsSome(numIter["A"])
        /\ LET pt == Unwrap(numIter["A"]).point
           IN ~IsSome(pt) \/ Unwrap(pt).y > y
  IN /\ \A i \in 1..Len(ns) :
          /\ ns[i].coord_length >= 1
          /\ ns[i].start_coord.x + ns[i].coord_length <= w
          /\ \A x \in ns[i].start_coord.x..(ns[i].start_coord.x + ns[i].coord_length - 1) :
               IsDigitCell(grid, x, ns[i].start_coord.y)
     /\ \A y \in 0..(h - 2) :
          (IsDigitCell(grid, w - 1, y) /\ Passed(y)) =>
            \E i \in 1..Len(ns) :
              /\ ns[i].start_coord.y = y
              /\ ns[i].coord_length = w - ns[i].start_coord.x
     /\ \A y \in 1..(h - 1) :
          (IsDigitCell(grid, 0, y) /\ Complete(out)) =>
            \E i \in 1..Len(ns) : ns[i].start_coord = Point(0, y)
     /\ (grid.lines = StartEndInput /\ Complete(out)) => Values(ns) = <<12, 34, 56, 7, 89>>

C2_Witness ==
  /\ grid.lines = StartEndInput
  /\ \E i \in 1..(Len(numOut["A"]) - 1) :
       /\ numOut["A"][i] = Some(GridNumber(34, Point(3, 0), 2))
       /\ numOut["A"][i + 1] = Some(GridNumber(56, Point(0, 1), 2))

(***************************************************************************)
(* C3: when the last cell of the grid is a digit, the call of next() that  *)
(* exhausts the cursor returns the run still open, with coord_length =     *)
(* width - start_coord.x; that run is returned once; and every call made   *)
(* on an exhausted cursor returns None.                                    *)
(***************************************************************************)
ReachesLastCell(g, n) ==
  /\ n.start_coord.y = g.height - 1
  /\ n.start_coord.x + n.coord_length = g.width

C3_Call ==
  (/\ IsSome(numIter["A"])
   /\ IsSome(numIter'["A"])
   /\ Len(numOut'["A"]) = Len(numOut["A"]) + 1) =>
    LET before == Unwrap(numIter["A"]).point
        after == Unwrap(numIter'["A"]).point
        ret == numOut'["A"][Len(numOut'["A"])]
        ns == Emitted(numOut'["A"])
    IN /\ numOut'["A"] = Append(numOut["A"], ret)
       /\ ~IsSome(before) => (ret = None /\ after = None)
       /\ (IsSome(before) /\ ~IsSome(after)
             /\ IsDigitCell(grid, grid.width - 1, grid.height - 1)) =>
            /\ IsSome(ret)
            /\ ReachesLastCell(grid, Unwrap(ret))
            /\ Unwrap(ret).coord_length = grid.width - Unwrap(ret).start_coord.x
            /\ Unwrap(ret) \in MaximalRuns(grid)
       /\ Cardinality({i \in 1..Len(ns) : ReachesLastCell(grid, ns[i])}) <= 1

C3_FinalRunEmittedOnce == [][C3_Call]_vars

C3_Witness ==
  /\ IsDigitCell(grid, grid.width - 1, grid.height - 1)
  /\ IsSome(numIter["A"])
  /\ Unwrap(numIter["A"]).point = None
  /\ Len(numOut["A"]) >= 3
  /\ LET out == numOut["A"]
     IN /\ IsSome(out[Len(out) - 2])
        /\ ReachesLastCell(grid, Unwrap(out[Len(out) - 2]))
        /\ out[Len(out) - 1] = None
        /\ out[Len(out)] = None

(***************************************************************************)
(* Reference definitions for the queries.                                  *)
(***************************************************************************)
Abs(i) == IF i < 0 THEN -i ELSE i

\* The in-bounds cells among the 8 cells around p.
Neighbours(g, p) ==
  {q \in ValidPoints(g) : q # p /\ Abs(q.x - p.x) <= 1 /\ Abs(q.y - p.y) <= 1}

RunCells(g, n) == {p \in ValidPoints(g) : Covers(n, p)}

\* Some cell of n's run has a Symbol cell among its neighbours.
TouchesSymbol(g, n) ==
  \E c \in RunCells(g, n) : \E q \in Neighbours(g, c) : IsSymbolCell(g, q.x, q.y)

\* The maximal runs with a cell among the neighbours of p.
RunsAround(g, p) == {r \in MaximalRuns(g) : RunCells(g, r) \cap Neighbours(g, p) # {}}

RECURSIVE SumOfValues(_)
SumOfValues(runs) ==
  IF runs = {} THEN 0
  ELSE LET r == CHOOSE r \in runs : TRUE IN r.value + SumOfValues(runs \ {r})

RECURSIVE ProductOfValues(_)
ProductOfValues(runs) ==
  IF runs = {} THEN 1
  ELSE LET r == CHOOSE r \in runs : TRUE IN r.value * ProductOfValues(runs \ {r})

\* The ratios of the '*' cells with exactly two runs around them, from the
\* i-th cell in row-major order on.
RECURSIVE ExpectedRatios(_, _)
ExpectedRatios(g, i) ==
  IF i >= g.width * g.height THEN <<>>
  ELSE LET p == Point(i % g.width, i \div g.width)
           around == RunsAround(g, p)
       IN (IF CellAt(g, p.x, p.y) = "*" /\ Cardinality(around) = 2
             THEN <<ProductOfValues(around)>>
             ELSE <<>>) \o ExpectedRatios(g, i + 1)

IsQuery(op) == IsSome(query) /\ Unwrap(query).op = op

(***************************************************************************)
(* C4: for a Number of grid_numbers(), part_number returns Some(value) if  *)
(* and only if some cell of its run, interior cells included, has a Symbol *)
(* cell among its in-bounds 8 neighbours, and None otherwise.              *)
(***************************************************************************)
C4_PartNumberIffSymbolNeighbour ==
  IsQuery("part_number") =>
    LET n == Unwrap(query).arg
        r == Unwrap(query).result
    IN IF TouchesSymbol(grid, n) THEN r = Some(n.value) ELSE r = None

\* The only Symbol touches interior cells of the run, neither of its end cells.
C4_Witness ==
  /\ IsQuery("part_number")
  /\ grid.lines = InteriorInput
  /\ Unwrap(query).arg = GridNumber(12121, Point(0, 1), 5)
  /\ Unwrap(query).result = Some(12121)

(***************************************************************************)
(* C5: gears() holds one Gear for each '*' cell that has exactly two       *)
(* distinct Numbers (distinct by position, not by value) with a run cell   *)
(* among its 8 neighbours, in row-major order of the '*' cells, its ratio  *)
(* the product of the two values, and no Gear for any other cell.          *)
(***************************************************************************)
C5_GearsAreStarsWithTwoNumbers ==
  IsSome(gearIter["A"]) =>
    LET gs == GearsCollect(Unwrap(gearIter["A"]))
    IN [i \in 1..Len(gs) |-> gs[i].ratio] = ExpectedRatios(grid, 0)

C5_Witness ==
  /\ grid.lines = EqualValuesInput
  /\ IsSome(gearIter["A"])
  /\ GearsCollect(Unwrap(gearIter["A"])) = << [ratio |-> 144] >>

(***************************************************************************)
(* C6: solve_one is the sum of the values of the Numbers of the grid that  *)
(* touch a Symbol, each Number counted once per position; the 10x10        *)
(* example grid gives 4361.                                                *)
(***************************************************************************)
C6_SolveOneSumsPartNumbers ==
  IsQuery("solve_one") =>
    /\ Unwrap(query).result
         = SumOfValues({r \in MaximalRuns(grid) : TouchesSymbol(grid, r)})
    /\ grid.lines = TEST_INPUT => Unwrap(query).result = 4361

C6_Witness ==
  /\ IsQuery("solve_one")
  /\ grid.lines = TEST_INPUT
  /\ Unwrap(query).result = 4361

(***************************************************************************)
(* C7: solve_two is the sum of the ratios of the Gears, the sum over every *)
(* '*' cell with exactly two Numbers around it of the product of their     *)
(* values; the 10x10 example grid gives 467835.                            *)
(***************************************************************************)
C7_SolveTwoSumsGearRatios ==
  IsQuery("solve_two") =>
    /\ Unwrap(query).result = SumSeq(ExpectedRatios(grid, 0))
    /\ grid.lines = TEST_INPUT => Unwrap(query).result = 16345 + 451490

C7_Witness ==
  /\ IsQuery("solve_two")
  /\ grid.lines = TEST_INPUT
  /\ Unwrap(query).result = 467835

(***************************************************************************)
(* C8: the adjacency enumeration of a valid coordinate c yields only valid *)
(* coordinates, never c, none twice, at most 8, and exactly 8 if and only  *)
(* if c is not on the first or last row or column.                         *)
(***************************************************************************)
C8_AdjacentPointsValidDistinct ==
  IsQuery("adjacent") =>
    LET c == Unwrap(query).arg
        ps == Unwrap(query).points
    IN /\ \A i \in 1..Len(ps) :
            /\ 0 <= ps[i].x /\ ps[i].x < grid.width
            /\ 0 <= ps[i].y /\ ps[i].y < grid.height
            /\ ps[i] # c
       /\ \A i, j \in 1..Len(ps) : i # j => ps[i] # ps[j]
       /\ Len(ps) <= 8
       /\ Len(ps) = 8 <=>
            /\ 0 < c.x /\ c.x < grid.width - 1
            /\ 0 < c.y /\ c.y < grid.height - 1

C8_Witness ==
  /\ IsQuery("adjacent")
  /\ grid.lines = EdgeInput
  /\ Unwrap(query).arg = Point(1, 1)
  /\ Len(Unwrap(query).points) = 8

(***************************************************************************)
(* C9: the neighbours come in the order NW, N, NE, W, E, SW, S, SE with    *)
(* the out-of-grid ones removed, and grid.adjacent yields the cells at     *)
(* those coordinates in that order.                                        *)
(***************************************************************************)
CompassOrder ==
  << [dx |-> -1, dy |-> -1], [dx |-> 0, dy |-> -1], [dx |-> 1, dy |-> -1],
     [dx |-> -1, dy |-> 0], [dx |-> 1, dy |-> 0],
     [dx |-> -1, dy |-> 1], [dx |-> 0, dy |-> 1], [dx |-> 1, dy |-> 1] >>

RECURSIVE ExpectedNeighbours(_, _, _)
ExpectedNeighbours(g, c, i) ==
  IF i > 8 THEN <<>>
  ELSE LET x == c.x + CompassOrder[i].dx
           y == c.y + CompassOrder[i].dy
       IN (IF 0 <= x /\ x < g.width /\ 0 <= y /\ y < g.height
             THEN <<Point(x, y)>>
             ELSE <<>>) \o ExpectedNeighbours(g, c, i + 1)

C9_AdjacentOrder ==
  IsQuery("adjacent") =>
    LET c == Unwrap(query).arg
        ps == Unwrap(query).points
        cells == Unwrap(query).result
    IN /\ ps = ExpectedNeighbours(grid, c, 1)
       /\ Len(cells) = Len(ps)
       /\ \A i \in 1..Len(ps) : cells[i] = CellAt(grid, ps[i].x, ps[i].y)

C9_Witness ==
  /\ IsQuery("adjacent")
  /\ grid.lines = EdgeInput
  /\ Unwrap(query).arg = Point(2, 1)
  /\ Unwrap(query).result = <<"2", "3", "5", "8", "9">>

(***************************************************************************)
(* C10: two calls of grid_numbers(), or of gears(), on the same schematic  *)
(* yield the same sequence: every call builds a fresh iterator at (0, 0),  *)
(* whatever the other consumer's iterator has yielded so far, and the two  *)
(* GearIterators hold the same Gears.                                      *)
(***************************************************************************)
IsPrefix(a, b) == Len(a) <= Len(b) /\ SubSeq(b, 1, Len(a)) = a

C10_RepeatedCallsAgree ==
  /\ \A c \in Callers :
       (IsSome(numIter[c]) /\ numOut[c] = <<>>) =>
         Unwrap(numIter[c]).point = Some(Point(0, 0))
  /\ IsPrefix(numOut["A"], numOut["B"]) \/ IsPrefix(numOut["B"], numOut["A"])
  /\ (Complete(numOut["A"]) /\ Complete(numOut["B"])) =>
       Emitted(numOut["A"]) = Emitted(numOut["B"])
  /\ (IsSome(gearIter["A"]) /\ IsSome(gearIter["B"])) =>
       GearsCollect(Unwrap(gearIter["A"])) = GearsCollect(Unwrap(gearIter["B"]))

C10_Witness ==
  /\ Complete(numOut["A"])
  /\ Complete(numOut["B"])
  /\ Len(Emitted(numOut["A"])) >= 2
  /\ Emitted(numOut["A"]) = Emitted(numOut["B"])
  /\ IsSome(gearIter["A"])
  /\ IsSome(gearIter["B"])
  /\ Len(GearsCollect(Unwrap(gearIter["A"]))) >= 1
  /\ GearsCollect(Unwrap(gearIter["A"])) = GearsCollect(Unwrap(gearIter["B"]))

(***************************************************************************)
(* AoCGrid::new on an input text.  A text is a sequence of one-character   *)
(* strings, "\n" the line feed (no carriage returns in these inputs).      *)
(***************************************************************************)
TextAlphabet == {"1", ".", "\n"}

Texts == UNION {[1..n -> TextAlphabet] : n \in 0..MaxText}

\* str::lines: the pieces between line feeds, cur the piece being read; a
\* last piece that is empty is not a line.
RECURSIVE SplitLines(_, _)
SplitLines(text, cur) ==
  IF text = <<>>
    THEN IF cur = <<>> THEN <<>> ELSE <<cur>>
    ELSE IF text[1] = "\n"
           THEN <<cur>> \o SplitLines(Tail(text), <<>>)
           ELSE SplitLines(Tail(text), Append(cur, text[1]))

TextLines(text) == SplitLines(text, <<>>)

\* No AoCGrid has been constructed.
NoGrid == [ok |-> FALSE, lines |-> <<>>, width |-> 0, height |-> 0]

InitNoGrid ==
  /\ grid = NoGrid
  /\ numIter = [c \in Callers |-> None]
  /\ numOut = [c \in Callers |-> <<>>]
  /\ gearIter = [c \in Callers |-> None]
  /\ query = None
  /\ panicked = FALSE

\* main's AoCGrid::new(&input_data): the grid, or the abort of the program.
New(text) ==
  /\ Idle
  /\ grid = NoGrid
  /\ grid' = AoCGridNew(TextLines(text))
  /\ panicked' = ~grid'.ok
  /\ query' = Some([op |-> "new", arg |-> text, points |-> <<>>, result |-> grid'.ok])
  /\ UNCHANGED <<numIter, numOut, gearIter>>

NextNew == \E text \in Texts : New(text)

SpecNew == InitNoGrid /\ [][NextNew]_vars

(***************************************************************************)
(* C11: AoCGrid::new aborts, producing no Grid, when the input has no line *)
(* or when some line's length differs from the first line's; otherwise it  *)
(* succeeds with width = length of the first line and height = number of   *)
(* lines.                                                                  *)
(***************************************************************************)
C11_NewFailsOnEmptyOrRagged ==
  IsQuery("new") =>
    LET ls == TextLines(Unwrap(query).arg)
        ragged == \E i \in 1..Len(ls) : Len(ls[i]) # Len(ls[1])
    IN IF ls = <<>> \/ ragged
         THEN ~grid.ok /\ panicked
         ELSE /\ grid.ok /\ ~panicked
              /\ grid.lines = ls
              /\ grid.width = Len(ls[1])
              /\ grid.height = Len(ls)

\* Three lines, only the last of another length.
C11_Witness ==
  /\ IsQuery("new")
  /\ Unwrap(query).arg = <<"1", "\n", ".", "\n", ".", "1">>
  /\ ~grid.ok
  /\ panicked

(***************************************************************************)
(* C12: every Grid that AoCGrid::new constructs has height >= 1 and        *)
(* width >= 1, also for inputs whose lines are all empty.                  *)
(***************************************************************************)
C12_ConstructedGridNotEmpty ==
  (IsQuery("new") /\ grid.ok) => (grid.height >= 1 /\ grid.width >= 1)

(***************************************************************************)
(* AoCGrid::get and AoCGrid::get_str, one call on a grid, for coordinates  *)
(* in the grid and up to two columns or rows outside it.                   *)
(***************************************************************************)
AccessInputs == PatternInputs \cup NamedInputs \cup LargeInputs

InitAccess == InitOn(AccessInputs)

Probes(g) == {Point(px, py) : <<px, py>> \in (0..(g.width + 1)) \X (0..(g.height + 1))}

GetCall(p) ==
  /\ Idle
  /\ query' = Some([op |-> "get", arg |-> p, points |-> <<>>, result |-> Get(grid, p)])
  /\ UNCHANGED <<grid, numIter, numOut, gearIter, panicked>>

GetStrCall(p, length) ==
  /\ Idle
  /\ query' = Some([op |-> "get_str", arg |-> [p |-> p, length |-> length], points |-> <<>>,
                    result |-> get_str(grid, p, length)])
  /\ UNCHANGED <<grid, numIter, numOut, gearIter, panicked>>

NextAccess ==
  \/ \E p \in Probes(grid) : GetCall(p)
  \/ \E p \in Probes(grid) : \E length \in 0..(grid.width + 2) : GetStrCall(p, length)

SpecAccess == InitAccess /\ [][NextAccess]_vars

(***************************************************************************)
(* C13: get(p) returns the cell at column p.x of row p.y if and only if    *)
(* p.x < width and p.y < height, and None for every other coordinate,      *)
(* without aborting.                                                       *)
(***************************************************************************)
C13_GetIffInBounds ==
  IsQuery("get") =>
    LET p == Unwrap(query).arg
        r == Unwrap(query).result
    IN /\ ~panicked
       /\ IF p.x < grid.width /\ p.y < grid.height
            THEN r = Some(CellAt(grid, p.x, p.y))
            ELSE r = None

C13_Witness ==
  /\ IsQuery("get")
  /\ grid.lines = TEST_INPUT
  /\ Unwrap(query).arg = Point(3, 1)
  /\ Unwrap(query).result = Some("*")

(***************************************************************************)
(* C14: for a valid p, get_str(p, L) returns the cells of row p.y at the   *)
(* columns p.x .. min(p.x + L, width) - 1: L cells when p.x + L <= width,  *)
(* the rest of the row when p.x + L > width, never a cell of another row   *)
(* and never an error; for an invalid p it returns None.                   *)
(***************************************************************************)
Min(a, b) == IF a <= b THEN a ELSE b

C14_GetStrTruncatesAtRowEnd ==
  IsQuery("get_str") =>
    LET p == Unwrap(query).arg.p
        L == Unwrap(query).arg.length
        r == Unwrap(query).result
        n == Min(L, grid.width - p.x)
    IN /\ ~panicked
       /\ IF p.x < grid.width /\ p.y < grid.height
            THEN /\ IsSome(r)
                 /\ Len(Unwrap(r)) = n
                 /\ p.x + L <= grid.width => Len(Unwrap(r)) = L
                 /\ \A i \in 1..n : Unwrap(r)[i] = CellAt(grid, p.x + i - 1, p.y)
            ELSE r = None

\* Four cells asked for, two left in the row.
C14_Witness ==
  /\ IsQuery("get_str")
  /\ grid.lines = StartEndInput
  /\ Unwrap(query).arg = [p |-> Point(3, 0), length |-> 4]
  /\ Unwrap(query).result = Some(<<"3", "4">>)

(***************************************************************************)
(* C15: on a grid with width >= 1 and height >= 1 the scans use valid      *)
(* coordinates only: every point of GridIterator, every cursor position of *)
(* GridNumberIterator, every cell of an emitted Number and every (start,   *)
(* length) given to get_str is in bounds, so that no unwrap or expect on   *)
(* get or get_str fails.                                                   *)
(***************************************************************************)
C15_ScansStayInBounds ==
  LET ns == Emitted(numOut["A"])
      \* the states GridIterator can be in: fresh, or on a point it yielded
      its == {GridIteratorNew(grid)} \cup
             {[GridIteratorNew(grid) EXCEPT !.current = Some(p)] : p \in ValidPoints(grid)}
  IN /\ ~panicked
     /\ \A it \in its :
          LET item == GridIteratorNext(it).current
          IN IsSome(item) => (valid_coordinate(grid, Unwrap(item)) /\ IsSome(Get(grid, Unwrap(item))))
     /\ (IsSome(numIter["A"]) /\ IsSome(Unwrap(numIter["A"]).point)) =>
          /\ valid_coordinate(grid, Unwrap(Unwrap(numIter["A"]).point))
          /\ IsSome(Get(grid, Unwrap(Unwrap(numIter["A"]).point)))
     /\ \A i \in 1..Len(ns) :
          /\ \A dx \in 0..(ns[i].coord_length - 1) :
               LET c == Point(ns[i].start_coord.x + dx, ns[i].start_coord.y)
               IN valid_coordinate(grid, c) /\ IsSome(Get(grid, c))
          /\ ns[i].start_coord.x + ns[i].coord_length <= grid.width
          /\ IsSome(get_str(grid, ns[i].start_coord, ns[i].coord_length))

\* The whole grid scanned, runs closed at a non-digit, at a row end and at the grid's end.
C15_Witness ==
  /\ grid.lines = StartEndInput
  /\ ~panicked
  /\ Complete(numOut["A"])
  /\ Len(Emitted(numOut["A"])) = 5

(***************************************************************************)
(* Long digit runs: one-row schematics holding one run of up to MaxRun     *)
(* digits, alone, before a '.' or after a '.'.  A run is kept when its     *)
(* value has at most 9 significant digits or exceeds u64::MAX; the values  *)
(* between need more than the 32 bits of the model's integers.             *)
(***************************************************************************)
MaxRun == 21

Rep(d, n) == [i \in 1..n |-> d]

U64MaxPlusOne == <<"1", "8", "4", "4", "6", "7", "4", "4", "0", "7",
                   "3", "7", "0", "9", "5", "5", "1", "6", "1", "6">>

LongRuns ==
  {U64MaxPlusOne} \cup
  {r \in {Rep(d, n) : d \in {"0", "1", "9"}, n \in 1..MaxRun} :
     \/ OverflowsU64(r)
     \/ Len(StripZeros([i \in 1..Len(r) |-> DigitValue(r[i])])) <= 9}

LongRunInputs == UNION {{<<r>>, <<r \o <<".">> >>, << <<".">> \o r>>} : r \in LongRuns}

InitLongRuns == InitOn(LongRunInputs)

SpecLongRuns == InitLongRuns /\ [][Next]_vars

(***************************************************************************)
(* C16: every digit run that grid_numbers() detects parses into a u64, so  *)
(* the scan never aborts, whatever the length of the run.                  *)
(***************************************************************************)
C16_EveryRunParses == ~panicked

(***************************************************************************)
(* src/five: Range, StageTransformer                                       *)
(***************************************************************************)
MaxSource == 3
MaxLength == 2
MaxRanges == 2

DestinationStarts == {0, 10}

\* struct Range of src/five (Range above is the range of a function).
FiveRange(src, dst, len) == [source_start |-> src, destination_start |-> dst, length |-> len]

Ranges == {FiveRange(src, dst, len) : src \in 0..MaxSource, dst \in DestinationStarts, len \in 1..MaxLength}

\* The source intervals [source_start, source_start + length) are pairwise disjoint.
NonOverlapping(rs) ==
  \A i, j \in 1..Len(rs) :
    i < j => \/ rs[i].source_start + rs[i].length <= rs[j].source_start
             \/ rs[j].source_start + rs[j].length <= rs[i].source_start

RangeLists == {rs \in UNION {[1..n -> Ranges] : n \in 0..MaxRanges} : NonOverlapping(rs)}

TransformInputs == 0..(MaxSource + MaxLength + 1)

\* slice::sort_by is stable: r goes behind the elements that do not compare greater.
RECURSIVE SortInsert(_, _)
SortInsert(sorted, r) ==
  IF sorted = <<>> THEN <<r>>
  ELSE IF sorted[1].source_start <= r.source_start
         THEN <<sorted[1]>> \o SortInsert(Tail(sorted), r)
         ELSE <<r>> \o sorted

RECURSIVE SortBySourceStart(_, _)
SortBySourceStart(rs, sorted) ==
  IF rs = <<>> THEN sorted ELSE SortBySourceStart(Tail(rs), SortInsert(sorted, rs[1]))

\* StageTransformer::new
StageTransformerNew(rs) == [ranges |-> SortBySourceStart(rs, <<>>)]

\* slice::partition_point on a slice partitioned by the predicate source_start <= input.
PartitionPoint(rs, input) == Cardinality({i \in 1..Len(rs) : rs[i].source_start <= input})

\* StageTransformer::transform
transform(st, input) ==
  LET pp == PartitionPoint(st.ranges, input)
  IN IF pp = 0
       THEN input
       ELSE LET candidate_range == st.ranges[pp]
                diff == input - candidate_range.source_start
            IN IF diff <= candidate_range.length
                 THEN diff + candidate_range.destination_start
                 ELSE input

\* A StageTransformer is built from rs and asked for one input.
Transform(rs, input) ==
  /\ Idle
  /\ grid = NoGrid
  /\ LET st == StageTransformerNew(rs)
     IN query' = Some([op |-> "transform", arg |-> [ranges |-> st.ranges, input |-> input],
                       points |-> <<>>, result |-> transform(st, input)])
  /\ UNCHANGED <<grid, numIter, numOut, gearIter, panicked>>

NextTransform == \E rs \in RangeLists, input \in TransformInputs : Transform(rs, input)

SpecTransform == InitNoGrid /\ [][NextTransform]_vars

\* The ranges of rs whose half-open source interval holds input.
RangesHolding(rs, input) ==
  {i \in 1..Len(rs) : rs[i].source_start <= input /\ input < rs[i].source_start + rs[i].length}

(***************************************************************************)
(* C17: with non-overlapping ranges, transform maps an input of the        *)
(* half-open interval [source_start, source_start + length) of a range to  *)
(* destination_start + (input - source_start) and leaves an input of no    *)
(* range unchanged, the input source_start + length included.              *)
(***************************************************************************)
C17_TransformHalfOpen ==
  IsQuery("transform") =>
    LET q == Unwrap(query)
        rs == q.arg.ranges
        input == q.arg.input
        holding == RangesHolding(rs, input)
    IN IF holding = {}
         THEN q.result = input
         ELSE \A i \in holding : q.result = rs[i].destination_start + (input - rs[i].source_start)

(***************************************************************************)
(* What transform does: the last range starting at or below the input is   *)
(* the candidate, and it maps the closed interval [source_start,           *)
(* source_start + length].                                                 *)
(***************************************************************************)
TransformClosedInterval ==
  IsQuery("transform") =>
    LET q == Unwrap(query)
        rs == q.arg.ranges
        input == q.arg.input
        below == {i \in 1..Len(rs) : rs[i].source_start <= input}
    IN IF below = {}
         THEN q.result = input
         ELSE LET c == rs[Cardinality(below)]
              IN q.result = IF input <= c.source_start + c.length
                              THEN c.destination_start + (input - c.source_start)
                              ELSE input

(***************************************************************************)
(* src/six: num_combos_that_beat                                           *)
(***************************************************************************)
MaxTime == 15
MaxDistance == 40

\* The state of the function's locals; holds lists the values of hold at each
\* count += 1, underflow tells that a u64 subtraction went below zero.
Locals(count, hold, go_time, holds, underflow) ==
  [count |-> count, hold |-> hold, go_time |-> go_time, holds |-> holds, underflow |-> underflow]

\* The first while loop (lines 61-66).
RECURSIVE DownLoop(_, _, _)
DownLoop(time, distance, l) ==
  IF ~l.underflow /\ l.hold * l.go_time > distance /\ l.hold > 0 /\ l.go_time < time
    THEN DownLoop(time, distance,
           Locals(l.count + 1, l.hold - 1, l.go_time + 1, Append(l.holds, l.hold), l.hold < 1))
    ELSE l

\* The second while loop (lines 71-76).
RECURSIVE UpLoop(_, _, _)
UpLoop(time, distance, l) ==
  IF ~l.underflow /\ l.hold * l.go_time > distance /\ l.go_time > 0 /\ l.hold < time
    THEN UpLoop(time, distance,
           Locals(l.count + 1, l.hold + 1, l.go_time - 1, Append(l.holds, l.hold), l.go_time < 1))
    ELSE l

\* Mutant: the second loop starts at mid_floor again.
num_combos_that_beatFromMid(time, distance) ==
  LET mid_floor == time \div 2
      down == DownLoop(time, distance,
                Locals(0, mid_floor, time - mid_floor, <<>>, mid_floor > time))
      hold == mid_floor
  IN IF down.underflow
       THEN down
       ELSE UpLoop(time, distance,
              Locals(down.count, hold, time - hold, down.holds, hold > time))

\* num_combos_that_beat: the locals at the function's end.
num_combos_that_beat(time, distance) ==
  LET mid_floor == time \div 2
      down == DownLoop(time, distance,
                Locals(0, mid_floor, time - mid_floor, <<>>, mid_floor > time))
      hold == mid_floor + 1
  IN IF down.underflow
       THEN down
       ELSE UpLoop(time, distance,
              Locals(down.count, hold, time - hold, down.holds, hold > time))

\* One call of num_combos_that_beat; a subtraction below zero aborts the program.
NumCombosThatBeat(time, distance) ==
  /\ Idle
  /\ grid = NoGrid
  /\ LET l == num_combos_that_beat(time, distance)
     IN /\ query' = Some([op |-> "num_combos_that_beat",
                          arg |-> [time |-> time, distance |-> distance],
                          points |-> l.holds, result |-> l.count])
        /\ panicked' = l.underflow
  /\ UNCHANGED <<grid, numIter, numOut, gearIter>>

NextCombos == \E time \in 1..MaxTime, distance \in 0..MaxDistance : NumCombosThatBeat(time, distance)

SpecCombos == InitNoGrid /\ [][NextCombos]_vars

\* The holds that beat the distance.
WinningHolds(time, distance) == {hold \in 0..time : hold * (time - hold) > distance}

(***************************************************************************)
(* C18: for time >= 1 and distance >= 0, num_combos_that_beat returns the  *)
(* number of holds in 0..time with hold * (time - hold) > distance; the    *)
(* two loops count every winning hold exactly once and no subtraction goes *)
(* below zero.                                                             *)
(***************************************************************************)
C18_CountsWinningHolds ==
  IsQuery("num_combos_that_beat") =>
    LET q == Unwrap(query)
        wins == WinningHolds(q.arg.time, q.arg.distance)
    IN /\ ~panicked
       /\ q.result = Cardinality(wins)
       /\ Len(q.points) = q.result
       /\ {q.points[i] : i \in 1..Len(q.points)} = wins
       /\ \A i, j \in 1..Len(q.points) : q.points[i] = q.points[j] => i = j

\* time 7, distance 9: the holds 3, 2 counted downwards and 4, 5 upwards.
C18_Witness ==
  /\ IsQuery("num_combos_that_beat")
  /\ Unwrap(query).arg = [time |-> 7, distance |-> 9]
  /\ Unwrap(query).points = <<3, 2, 4, 5>>
  /\ Unwrap(query).result = 4

(***************************************************************************)
(* src/four: Card, matches_count, solve_two                                *)
(***************************************************************************)
MaxCards == 4

Card(id, winning_nums, chosen_nums) ==
  [id |-> id, winning_nums |-> winning_nums, chosen_nums |-> chosen_nums]

\* tests::TEST_DATA
TEST_DATA ==
  << Card(1, {41, 48, 83, 86, 17}, <<83, 86, 6, 31, 17, 9, 48, 53>>),
     Card(2, {13, 32, 20, 16, 61}, <<61, 30, 68, 82, 17, 32, 24, 19>>),
     Card(3, {1, 21, 53, 59, 44}, <<69, 82, 63, 72, 16, 21, 14, 1>>),
     Card(4, {41, 92, 73, 84, 69}, <<59, 84, 76, 51, 58, 5, 54, 83>>),
     Card(5, {87, 83, 26, 28, 32}, <<88, 30, 70, 12, 93, 22, 82, 36>>),
     Card(6, {31, 18, 13, 56, 72}, <<74, 77, 10, 23, 35, 67, 36, 11>>) >>

\* The numbers of a card: no match, one, two, three, and a chosen number given twice.
CardNumbers ==
  { <<{}, <<1>> >>, <<{1}, <<2>> >>, <<{1}, <<1, 2>> >>, <<{1, 2}, <<2, 1>> >>,
    <<{1, 2, 3}, <<3, 4, 1, 2>> >>, <<{1}, <<1, 1>> >> }

\* Tables of cards with the ids 1..n in order, as parse_cards reads them from
\* a well-formed table; a card may have more matches than cards follow it.
CardTables ==
  {TEST_DATA} \cup
  UNION {{[i \in 1..n |-> Card(i, ns[i][1], ns[i][2])] : ns \in [1..n -> CardNumbers]} : n \in 0..MaxCards}

\* Card::matches_count: the chosen numbers, with repetitions, that are winning numbers.
matches_count(card) ==
  Cardinality({i \in 1..Len(card.chosen_nums) : card.chosen_nums[i] \in card.winning_nums})

\* Mutant: the copies go to the card itself and the v - 1 cards behind it.
RECURSIVE AddCopiesFromSelf(_, _, _, _)
AddCopiesFromSelf(counts, id, end, m) ==
  IF id >= end THEN [counts |-> counts, panic |-> FALSE]
  ELSE IF id > Len(counts) THEN [counts |-> counts, panic |-> TRUE]
  ELSE AddCopiesFromSelf([counts EXCEPT ![id] = @ + m], id + 1, end, m)

\* The inner loop for id in card.id..card.id+v (lines 56-58); counts[id] of the
\* 0-based Vec is the entry id + 1 here, get_mut(..).expect panics past the end.
RECURSIVE AddCopies(_, _, _, _)
AddCopies(counts, id, end, m) ==
  IF id >= end THEN [counts |-> counts, panic |-> FALSE]
  ELSE IF id + 1 > Len(counts) THEN [counts |-> counts, panic |-> TRUE]
  ELSE AddCopies([counts EXCEPT ![id + 1] = @ + m], id + 1, end, m)

\* The outer loop over cards[k..] (lines 52-60); seen lists, for each card, its
\* count at the moment the card is handled.
RECURSIVE CardsLoop(_, _, _, _)
CardsLoop(cards, k, counts, seen) ==
  IF k > Len(cards)
    THEN [counts |-> counts, seen |-> seen, panic |-> FALSE]
    ELSE LET card == cards[k]
             v == matches_count(card)
         IN IF v > 0
              THEN IF card.id < 1 \/ card.id > Len(counts)
                     THEN [counts |-> counts, seen |-> seen, panic |-> TRUE]
                     ELSE LET m == counts[card.id]
                              r == AddCopies(counts, card.id, card.id + v, m)
                          IN IF r.panic
                               THEN [counts |-> r.counts, seen |-> Append(seen, m), panic |-> TRUE]
                               ELSE CardsLoop(cards, k + 1, r.counts, Append(seen, m))
              ELSE CardsLoop(cards, k + 1, counts, Append(seen, counts[k]))

\* solve_two of src/four: the counts, their sum, and whether an expect panicked.
four_solve_two(cards) ==
  LET r == CardsLoop(cards, 1, [i \in 1..Len(cards) |-> 1], <<>>)
  IN [counts |-> r.counts, seen |-> r.seen, total |-> SumSeq(r.counts), panic |-> r.panic]

FourSolveTwo(cards) ==
  /\ Idle
  /\ grid = NoGrid
  /\ LET r == four_solve_two(cards)
     IN /\ query' = Some([op |-> "four::solve_two", arg |-> cards, points |-> r.seen,
                          result |-> [counts |-> r.counts, total |-> r.total]])
        /\ panicked' = r.panic
  /\ UNCHANGED <<grid, numIter, numOut, gearIter>>

NextCards == \E cards \in CardTables : FourSolveTwo(cards)

SpecCards == InitNoGrid /\ [][NextCards]_vars

\* The number of copies of card i, the original included: one, and one for each
\* copy of an earlier card j whose matches reach i.
RECURSIVE CopiesOf(_, _)
CopiesOf(cards, i) ==
  LET Earlier == {j \in 1..(i - 1) : i <= j + matches_count(cards[j])}
      RECURSIVE SumOver(_)
      SumOver(S) == IF S = {} THEN 0
                    ELSE LET j == CHOOSE x \in S : TRUE IN CopiesOf(cards, j) + SumOver(S \ {j})
  IN 1 + SumOver(Earlier)

\* Cards 1..n in id order, no card winning copies past the end of the table.
WithinTable(cards) ==
  \A i \in 1..Len(cards) : cards[i].id = i /\ i + matches_count(cards[i]) <= Len(cards)

(***************************************************************************)
(* C19: for cards 1..n in id order with i + v_i <= n, solve_two returns    *)
(* the sum of the counts, where every card starts with count 1 and each    *)
(* copy of card i adds a copy to the cards i+1 .. i+v_i; the count of a    *)
(* card is final when the card is handled, and every count is >= 1.        *)
(***************************************************************************)
C19_SolveTwoSumsCounts ==
  (IsQuery("four::solve_two") /\ WithinTable(Unwrap(query).arg)) =>
    LET q == Unwrap(query)
        cards == q.arg
        n == Len(cards)
    IN /\ ~panicked
       /\ Len(q.result.counts) = n
       /\ \A i \in 1..n : q.result.counts[i] = CopiesOf(cards, i)
       /\ q.result.total = SumSeq([i \in 1..n |-> CopiesOf(cards, i)])
       /\ q.points = q.result.counts
       /\ \A i \in 1..n : q.result.counts[i] >= 1

\* tests::test: the six cards of TEST_DATA give 1 + 2 + 4 + 8 + 14 + 1 = 30.
C19_Witness ==
  /\ IsQuery("four::solve_two")
  /\ Unwrap(query).arg = TEST_DATA
  /\ Unwrap(query).result = [counts |-> <<1, 2, 4, 8, 14, 1>>, total |-> 30]
  /\ ~panicked

(***************************************************************************)
(* part_number_lookup as a call of its own                                 *)
(***************************************************************************)
\* The calls result.insert(point, grid_number) of part_number_lookup, in order.
RECURSIVE LookupInserts(_, _, _)
LookupInserts(g, ns, i) ==
  IF i > Len(ns)
    THEN <<>>
    ELSE LET n == ns[i]
         IN (IF IsSome(part_number(g, n))
               THEN [k \in 1..n.coord_length |->
                       [point |-> Point(n.start_coord.x + (k - 1), n.start_coord.y), number |-> n]]
               ELSE <<>>) \o LookupInserts(g, ns, i + 1)

PartNumberLookup ==
  /\ Idle
  /\ query' = Some([op |-> "part_number_lookup", arg |-> None,
                    points |-> LookupInserts(grid, grid_numbers(grid), 1),
                    result |-> part_number_lookup(grid)])
  /\ UNCHANGED <<grid, numIter, numOut, gearIter, panicked>>

NextLookup == PartNumberLookup

SpecLookup == Init /\ [][NextLookup]_vars

(***************************************************************************)
(* C20: part_number_lookup loses no Number for the gears: every Number     *)
(* with a run cell among the 8 neighbours of a '*' cell has all its cells  *)
(* mapped to it; the lookup maps c to n exactly when c is a cell of n's    *)
(* run and n is a part number; no coordinate is inserted for two different *)
(* Numbers.                                                                *)
(***************************************************************************)
C20_LookupLosesNoNumber ==
  IsQuery("part_number_lookup") =>
    LET q == Unwrap(query)
        lookup == q.result
        inserts == q.points
        parts == {r \in MaximalRuns(grid) : TouchesSymbol(grid, r)}
    IN /\ \A s \in ValidPoints(grid) :
            CellAt(grid, s.x, s.y) = "*" =>
              \A r \in RunsAround(grid, s) :
                /\ IsSome(part_number(grid, r))
                /\ \A c \in RunCells(grid, r) : c \in DOMAIN lookup /\ lookup[c] = r
       /\ DOMAIN lookup = UNION {RunCells(grid, r) : r \in parts}
       /\ \A c \in DOMAIN lookup : lookup[c] \in parts /\ Covers(lookup[c], c)
       /\ \A i, j \in 1..Len(inserts) :
            inserts[i].point = inserts[j].point => inserts[i].number = inserts[j].number

\* TEST_INPUT: 467 and 35 around the '*' at (3, 1) are in the lookup, 114 is not.
C20_Witness ==
  /\ IsQuery("part_number_lookup")
  /\ grid.lines = TEST_INPUT
  /\ LookupGet(Unwrap(query).result, Point(2, 0)) = Some(GridNumber(467, Point(0, 0), 3))
  /\ LookupGet(Unwrap(query).result, Point(3, 2)) = Some(GridNumber(35, Point(2, 2), 2))
  /\ LookupGet(Unwrap(query).result, Point(5, 0)) = None
  /\ Len(Unwrap(query).points) = 23

(***************************************************************************)
(* GridIterator stepped call by call.  query holds the iterator (arg), the *)
(* results of its next() calls so far (points) and the last one (result).  *)
(***************************************************************************)
NoneCount(out) == Cardinality({i \in 1..Len(out) : out[i] = None})

\* GridIterator::new
GridIteratorNewCall ==
  /\ Idle
  /\ query' = Some([op |-> "GridIterator", arg |-> GridIteratorNew(grid),
                    points |-> <<>>, result |-> None])
  /\ UNCHANGED <<grid, numIter, numOut, gearIter, panicked>>

\* GridIterator::next, which returns the new self.current.
GridIteratorNextCall ==
  /\ IsQuery("GridIterator")
  /\ NoneCount(Unwrap(query).points) < MaxNone
  /\ LET q == Unwrap(query)
         it == GridIteratorNext(q.arg)
     IN query' = Some([op |-> "GridIterator", arg |-> it,
                       points |-> Append(q.points, it.current), result |-> it.current])
  /\ UNCHANGED <<grid, numIter, numOut, gearIter, panicked>>

NextGridIterator ==
  \/ GridIteratorNewCall
  \/ GridIteratorNextCall

SpecGridIterator == Init /\ [][NextGridIterator]_vars

\* The i-th point of the grid in row-major order, i counted from 1.
RowMajorPoint(g, i) == Point((i - 1) % g.width, (i - 1) \div g.width)

(***************************************************************************)
(* C21: GridIterator yields the width x height points of the grid, each    *)
(* once, in row-major order from (0,0), then None, and every later call of *)
(* next() returns None as well.                                            *)
(***************************************************************************)
C21_GridIteratorStaysExhausted ==
  IsQuery("GridIterator") =>
    LET out == Unwrap(query).points
        cells == grid.width * grid.height
    IN \A i \in 1..Len(out) :
         out[i] = IF i <= cells THEN Some(RowMajorPoint(grid, i)) ELSE None

(***************************************************************************)
(* What GridIterator does: the results repeat with the period              *)
(* width x height + 1, a None after every full pass over the grid.         *)
(***************************************************************************)
GridIteratorStartsOver ==
  IsQuery("GridIterator") =>
    LET out == Unwrap(query).points
        period == grid.width * grid.height + 1
    IN \A i \in 1..Len(out) :
         out[i] = IF i % period = 0 THEN None ELSE Some(RowMajorPoint(grid, i % period))

(***************************************************************************)
(* GridNumberIterator stepped call by call with its get_coord_length call. *)
(* query holds the iterator (arg), the get_coord_length calls made so far  *)
(* (points) and the last item (result).                                    *)
(***************************************************************************)
\* The call get_coord_length(&start_coord, &this_point, width) that the while
\* loop of GridNumberIterator::next makes from the cursor `point` with the open
\* run `start`: a call is made at the first non-digit cell met while a run is
\* open, and the loop returns in that iteration.  None if the loop makes none.
RECURSIVE CoordLengthCall(_, _, _)
CoordLengthCall(g, point, start) ==
  IF ~IsSome(point)
    THEN None
    ELSE
      LET this_point == Unwrap(point)
          cell == Get(g, this_point)
          isDigit == IsSome(cell) /\ GridDataTypeFromStr(Unwrap(cell)).tag = "Digit"
          start1 == IF isDigit
                      THEN (IF IsSome(start) THEN start ELSE Some(this_point))
                      ELSE None
          np == next_point(g, point)
          crosses == IsSome(start1) /\ IsSome(np) /\ RowEnds(this_point, Unwrap(np))
      IN IF ~IsSome(cell) THEN None
         ELSE IF ~isDigit /\ IsSome(start)
           THEN Some([start |-> Unwrap(start), end |-> this_point,
                      crossed_line |-> this_point.x < Unwrap(start).x /\ this_point.y > Unwrap(start).y,
                      length |-> get_coord_length(Unwrap(start), this_point, g.width)])
         ELSE IF crosses THEN None
         ELSE CoordLengthCall(g, np, start1)

\* EngineSchematic::grid_numbers
GridNumbersCall ==
  /\ Idle
  /\ query' = Some([op |-> "GridNumberIterator", arg |-> GridNumberIteratorNew,
                    points |-> <<>>, result |-> None])
  /\ UNCHANGED <<grid, numIter, numOut, gearIter, panicked>>

\* GridNumberIterator::next while the cursor is on the grid.
GridNumberNextCall ==
  /\ IsQuery("GridNumberIterator")
  /\ ~panicked
  /\ IsSome(Unwrap(query).arg.point)
  /\ LET q == Unwrap(query)
         r == GridNumberIteratorNext(grid, q.arg)
         c == CoordLengthCall(grid, q.arg.point, None)
     IN /\ query' = Some([op |-> "GridNumberIterator", arg |-> [point |-> r.point],
                          points |-> q.points \o c, result |-> r.result])
        /\ panicked' = r.panic
  /\ UNCHANGED <<grid, numIter, numOut, gearIter>>

NextCoordLength ==
  \/ GridNumbersCall
  \/ GridNumberNextCall

SpecCoordLength == Init /\ [][NextCoordLength]_vars

(***************************************************************************)
(* C22: whenever GridNumberIterator::next closes an open run at a          *)
(* non-digit cell, the cell is in the row of the run's start and strictly  *)
(* to its right, so get_coord_length never takes its crossed-line branch,  *)
(* never subtracts below zero, and returns a length between 1 and          *)
(* width - start.x.                                                        *)
(***************************************************************************)
C22_RunClosesInItsRow ==
  IsQuery("GridNumberIterator") =>
    LET calls == Unwrap(query).points
    IN \A i \in 1..Len(calls) :
         /\ calls[i].end.y = calls[i].start.y
         /\ calls[i].end.x > calls[i].start.x
         /\ ~calls[i].crossed_line
         /\ calls[i].length = calls[i].end.x - calls[i].start.x
         /\ calls[i].length >= 1
         /\ calls[i].length <= grid.width - calls[i].start.x

\* StartEndInput "12.34" / "56..." / "7..89": 12 is closed at (2, 0), 56 at
\* (2, 1) and 7 at (1, 2); 34 ends its row and 89 the grid, without a call.
C22_Witness ==
  /\ IsQuery("GridNumberIterator")
  /\ grid.lines = StartEndInput
  /\ ~IsSome(Unwrap(query).arg.point)
  /\ Len(Unwrap(query).points) = 3
  /\ Unwrap(query).points[1] =
       [start |-> Point(0, 0), end |-> Point(2, 0), crossed_line |-> FALSE, length |-> 2]

====
